---------------------------- MODULE Spec2Model ----------------------------
(***************************************************************************)
(* Model of the tool handlers of the Coda MCP server (src/src/server.ts).  *)
(*                                                                         *)
(* A handler is an async function: it runs to its next `await`, suspends   *)
(* while the API call is in flight, and resumes when the call resolves or  *)
(* rejects.  One action models the synchronous stretch of code between two *)
(* suspension points.  The handlers keep no state between invocations, so  *)
(* a behaviour is one invocation, started from the idle server.            *)
(***************************************************************************)
EXTENDS Integers, Sequences, FiniteSets, TLC

\* ------------------------------------------------------------------ bounds
MaxUpdates == 3      \* longest `updates` array of coda_bulk_update_rows
MaxLen     == 4      \* longest page content, in characters
MaxLines   == 3      \* largest numLines of coda_peek_page
MaxLimit   == 2      \* largest limit of coda_list_pages
MaxWait    == 2      \* largest wait budget of the resolver, in poll intervals
MaxPages   == 2      \* longest page listing of coda_search_pages
MaxConcurrentUpdates == 2  \* longest `updates` array of two concurrent batches
MaxConcurrentLen == 1      \* longest page content of two concurrent retrievals

\* ------------------------------------------------------- JavaScript values
undefined == [type |-> "undefined"]
Str(chars) == [type |-> "string", chars |-> chars]
Num(n) == [type |-> "number", n |-> n]

\* truthiness of a value: undefined, "" and 0 are falsy
Truthy(v) ==
  CASE v.type = "undefined" -> FALSE
    [] v.type = "string"    -> v.chars # << >>
    [] v.type = "number"    -> v.n # 0

\* a ?? b
NullishCoalesce(a, b) == IF a.type = "undefined" THEN b ELSE a

\* values a rejected call can throw: an Error object or something else
Thrown ==
  { [instanceofError |-> TRUE,  message |-> "boom", String |-> "Error: boom"],
    [instanceofError |-> FALSE, message |-> "none", String |-> "raw"] }

\* error instanceof Error ? error.message : String(error)
ErrorMessage(error) ==
  IF error.instanceofError THEN error.message ELSE error.String

\* JSON.stringify(value, null, 2): the text that encodes `value`
JSONstringify(value) == [json |-> value]

\* --------------------------------------------------------- tool arguments
DocIds   == {"d1", "d2"}
TableIds == {"t1"}
RowIds   == {"r1", "r2"}

\* `limit` of a list tool: absent or a positive integer
Limits == {undefined} \cup {Num(n) : n \in 1..MaxLimit}

\* `values` objects, as their entries in insertion order
ValueObjects == { << >>, << <<"c1", "x">> >> }

Updates == [rowIdOrName : RowIds, values : ValueObjects]

RECURSIVE SeqsUpTo(_, _)
SeqsUpTo(S, n) ==
  IF n = 0 THEN { << >> }
  ELSE LET shorter == SeqsUpTo(S, n - 1)
       IN  shorter \cup { Append(s, x) : s \in { t \in shorter : Len(t) = n - 1 }, x \in S }

UpdateArrays == SeqsUpTo(Updates, MaxUpdates)

\* data the API answers a resolved updateRow call with
RowData(rowIdOrName) == [id |-> rowIdOrName, requestId |-> "req"]

\* ------------------------------------------------------------------ state
VARIABLES
  tool,     \* name of the invoked tool, "none" while the server is idle
  args,     \* arguments of the invocation
  pc,       \* "start" before main has run and "exited" after it failed, then
            \* "idle", "await" (suspended on an API call) or "returned"
  calls,    \* API calls issued by the invocation, in order
  settled,  \* how each issued call ended, in order
  i,        \* position of the for-of loop of coda_bulk_update_rows in updates,
            \* of coda_search_pages in the page listing
  results,  \* the array the loop fills: `results` of coda_bulk_update_rows,
            \* `contentMatches` of coda_search_pages
  result,   \* the CallToolResult the handler returned, NoResult before
  cancelled,\* the caller's deadline passed or it cancelled the request
  rpc,      \* resolver: "idle", "submit", "sleep", "poll", "fetch" or "done"
  rargs,    \* resolver: docId, pageId and the wait budget of the call
  waited,   \* resolver: poll intervals it has suspended for
  rcalls,   \* resolver: API Client calls it issued, in order
  rsettled, \* resolver: how each issued call ended, in order
  routcome, \* resolver: how resolveContent ended, NoOutcome before
  registered, \* names of the tools registered with the server, in order
  env,      \* process.env.API_KEY
  connects, \* number of server.connect calls
  mainResult, \* how the promise of main() settled, NoOutcome before
  parked    \* the handler state of a second invocation, suspended while the
            \* first one runs

\* the state of a tool invocation
handler == <<tool, args, pc, calls, settled, i, results, result>>

\* the state of a resolveContent call
resolver == <<rpc, rargs, waited, rcalls, rsettled, routcome>>

\* the state of the process start
startup == <<registered, env, connects, mainResult>>

\* the state no handler assigns
outside == <<cancelled, resolver, startup, parked>>

vars == <<handler, cancelled, resolver, startup, parked>>

NoResult == [isError |-> FALSE, text |-> "none", returned |-> FALSE]

Success(text) == [isError |-> FALSE, text |-> text, returned |-> TRUE]

Failure(operation, error) ==
  [isError |-> TRUE,
   text |-> "Failed to " \o operation \o " : " \o ErrorMessage(error),
   returned |-> TRUE]

NoOutcome == [status |-> "none"]
Resolved(data) == [status |-> "resolved", data |-> data]
Rejected(error) == [status |-> "rejected", error |-> error]

\* the handler is suspended on a call of `api`, the last call it issued
Awaiting(name, api) ==
  /\ pc = "await"
  /\ tool = name
  /\ calls[Len(calls)].api = api

\* ------------------------------------------------------------ tool registry
\* the names of the server.tool(...) registrations, in the order of the file
registeredTools ==
  << "coda_list_documents", "coda_get_document", "coda_create_document",
     "coda_update_document", "coda_list_pages", "coda_create_page",
     "coda_delete_page", "coda_get_page_content", "coda_peek_page",
     "coda_replace_page_content", "coda_append_page_content",
     "coda_duplicate_page", "coda_rename_page", "coda_list_tables",
     "coda_get_table", "coda_get_table_summary", "coda_list_columns",
     "coda_get_column", "coda_list_rows", "coda_get_row",
     "coda_create_rows", "coda_update_row", "coda_delete_row",
     "coda_delete_rows", "coda_list_formulas", "coda_get_formula",
     "coda_list_controls", "coda_get_control", "coda_push_button",
     "coda_whoami", "coda_search_tables", "coda_search_pages",
     "coda_bulk_update_rows", "coda_get_document_stats" >>
\* the tools the server is expected to offer
expectedToolNames ==
  << "coda_list_documents", "coda_get_document", "coda_create_document",
     "coda_update_document", "coda_list_pages", "coda_create_page",
     "coda_delete_page", "coda_get_page_content", "coda_peek_page",
     "coda_replace_page_content", "coda_append_page_content",
     "coda_duplicate_page", "coda_rename_page", "coda_list_tables",
     "coda_get_table", "coda_get_table_summary", "coda_list_columns",
     "coda_get_column", "coda_list_rows", "coda_get_row",
     "coda_create_rows", "coda_update_row", "coda_delete_row",
     "coda_delete_rows", "coda_list_formulas", "coda_get_formula",
     "coda_list_controls", "coda_get_control", "coda_push_button",
     "coda_whoami", "coda_resolve_link", "coda_search_tables",
     "coda_search_pages", "coda_bulk_update_rows",
     "coda_get_document_stats" >>

\* client.listTools(): the names of the registered tools
listTools == registered

\* ------------------------------------------------------------------ startup
\* values of process.env.API_KEY: not set, empty, or a token
ApiKeys == {undefined, Str(<< >>), Str(<<"k">>)}

ConfigError ==
  [instanceofError |-> TRUE,
   message |-> "The API_KEY environment variable is required to start the Coda MCP server. Please set API_KEY to your Coda API token.",
   String |-> "Error: The API_KEY environment variable is required to start the Coda MCP server. Please set API_KEY to your Coda API token."]

\* variant: only a missing variable is refused, an empty one passes
getConfig_undefined_only(apiKey) ==
  IF apiKey = undefined
  THEN [threw |-> TRUE, error |-> ConfigError]
  ELSE [threw |-> FALSE, config |-> [apiKey |-> apiKey]]

\* getConfig(): throws unless API_KEY is truthy
getConfig(apiKey) ==
  IF ~Truthy(apiKey)
  THEN [threw |-> TRUE, error |-> ConfigError]
  ELSE [threw |-> FALSE, config |-> [apiKey |-> apiKey]]

\* the handler state of an invocation that has not been made yet
NotInvoked ==
  [tool |-> "none", args |-> << >>, pc |-> "idle", calls |-> << >>,
   settled |-> << >>, i |-> 0, results |-> << >>, result |-> NoResult]

\* after module evaluation has registered the tools, nothing has run yet
Init ==
  /\ tool = "none"
  /\ args = << >>
  /\ pc = "start"
  /\ calls = << >>
  /\ settled = << >>
  /\ i = 0
  /\ results = << >>
  /\ result = NoResult
  /\ cancelled = FALSE
  /\ rpc = "idle"
  /\ rargs = << >>
  /\ waited = 0
  /\ rcalls = << >>
  /\ rsettled = << >>
  /\ routcome = NoOutcome
  /\ registered = registeredTools
  /\ env \in ApiKeys
  /\ connects = 0
  /\ mainResult = NoOutcome
  /\ parked = NotInvoked

\* main(): read the configuration, then connect the server to its transport;
\* a throw of getConfig rejects the promise of main before the connection
main ==
  /\ pc = "start"
  /\ LET got == getConfig(env)
     IN  IF got.threw
         THEN /\ mainResult' = Rejected(got.error)
              /\ pc' = "exited"
              /\ UNCHANGED connects
         ELSE /\ connects' = connects + 1
              /\ mainResult' = Resolved(got.config)
              /\ pc' = "idle"
  /\ UNCHANGED <<tool, args, calls, settled, i, results, result>>
  /\ UNCHANGED <<cancelled, resolver, registered, env, parked>>


\* ---------------------------------------------------- coda_bulk_update_rows
\* Object.entries(update.values).map(([column, value]) => ({column, value}))
Cells(values) ==
  [k \in 1..Len(values) |-> [column |-> values[k][1], value |-> values[k][2]]]

UpdateRowCall(docId, tableIdOrName, update) ==
  [api |-> "updateRow",
   path |-> [docId |-> docId, tableIdOrName |-> tableIdOrName,
             rowIdOrName |-> update.rowIdOrName],
   body |-> [row |-> [cells |-> Cells(update.values)]],
   throwOnError |-> TRUE]

SuccessOutcome(update, data) ==
  [rowId |-> update.rowIdOrName, success |-> TRUE, data |-> data]

FailureOutcome(update, error) ==
  [rowId |-> update.rowIdOrName, success |-> FALSE, error |-> ErrorMessage(error)]

\* results.filter(r => r.success).length
successful(rs) == Cardinality({k \in 1..Len(rs) : rs[k].success})

\* variant: counts the distinct failure outcomes instead of the entries
failed_distinct(rs) == Cardinality({rs[k] : k \in {j \in 1..Len(rs) : ~rs[j].success}})

\* results.filter(r => !r.success).length
failed(rs) == Cardinality({k \in 1..Len(rs) : ~rs[k].success})

\* updates.length
totalUpdates(updates) == Len(updates)

BatchReport(updates, rs) ==
  [results |-> rs,
   totalUpdates |-> totalUpdates(updates),
   successful |-> successful(rs),
   failed |-> failed(rs)]

\* variant: the calls for the remaining items are started without being
\* awaited and the report is returned at once (updates.forEach(async ...))
BulkAdvance_no_await(k, rs) ==
  /\ i' = Len(args.updates)
  /\ calls' = calls \o
       [j \in 1..(Len(args.updates) - k) |->
          UpdateRowCall(args.docId, args.tableIdOrName, args.updates[k + j])]
  /\ pc' = "returned"
  /\ result' = Success(JSONstringify(BatchReport(args.updates, rs)))

\* The for-of loop moves on to the item after position k: it issues that
\* item's updateRow call and suspends, or, past the last item, returns the
\* report.
BulkAdvance(k, rs) ==
  IF k < Len(args.updates)
  THEN /\ i' = k + 1
       /\ calls' = Append(calls, UpdateRowCall(args.docId, args.tableIdOrName,
                                                args.updates[k + 1]))
       /\ pc' = "await"
       /\ result' = result
  ELSE /\ i' = k
       /\ calls' = calls
       /\ pc' = "returned"
       /\ result' = Success(JSONstringify(BatchReport(args.updates, rs)))

\* what the invoked handler does up to its first suspension or its return
\* (the variant refuses an empty updates array instead of reporting it)
BulkStart(docId, tableIdOrName, updates, onEmpty) ==
  /\ tool' = "coda_bulk_update_rows"
  /\ args' = [docId |-> docId, tableIdOrName |-> tableIdOrName, updates |-> updates]
  /\ results' = << >>
  /\ settled' = << >>
  /\ IF 0 < Len(updates)
     THEN /\ i' = 1
          /\ calls' = <<UpdateRowCall(docId, tableIdOrName, updates[1])>>
          /\ pc' = "await"
          /\ result' = result
     ELSE /\ i' = 0
          /\ calls' = << >>
          /\ pc' = "returned"
          /\ result' = onEmpty

\* variant: an empty updates array is refused instead of reported
coda_bulk_update_rows_refuse_empty ==
  /\ pc = "idle"
  /\ \E docId \in DocIds, tableIdOrName \in TableIds, updates \in UpdateArrays :
       BulkStart(docId, tableIdOrName, updates,
                 Failure("bulk update rows",
                         [instanceofError |-> TRUE, message |-> "No updates",
                          String |-> "Error: No updates"]))
  /\ UNCHANGED outside

\* variant: the updateRow calls of all items are issued at once
\* (updates.map(...) awaited together) instead of one per loop turn
coda_bulk_update_rows_all_at_once ==
  /\ pc = "idle"
  /\ \E docId \in DocIds, tableIdOrName \in TableIds, updates \in UpdateArrays :
       /\ tool' = "coda_bulk_update_rows"
       /\ args' = [docId |-> docId, tableIdOrName |-> tableIdOrName,
                   updates |-> updates]
       /\ results' = << >>
       /\ settled' = << >>
       /\ calls' = [k \in 1..Len(updates) |->
                      UpdateRowCall(docId, tableIdOrName, updates[k])]
       /\ IF 0 < Len(updates)
          THEN /\ i' = 1
               /\ pc' = "await"
               /\ result' = result
          ELSE /\ i' = 0
               /\ pc' = "returned"
               /\ result' = Success(JSONstringify(BatchReport(updates, << >>)))
  /\ UNCHANGED outside

\* the handler is invoked: results = [], the loop starts
coda_bulk_update_rows ==
  /\ pc = "idle"
  /\ \E docId \in DocIds, tableIdOrName \in TableIds, updates \in UpdateArrays :
       BulkStart(docId, tableIdOrName, updates,
                 Success(JSONstringify(BatchReport(updates, << >>))))
  /\ UNCHANGED outside

\* the awaited updateRow call resolves: push the success outcome, loop on
coda_bulk_update_rows_resolved ==
  /\ pc = "await"
  /\ tool = "coda_bulk_update_rows"
  /\ LET update == args.updates[i]
         data == RowData(update.rowIdOrName)
         rs == Append(results, SuccessOutcome(update, data))
     IN  /\ settled' = Append(settled, Resolved(data))
         /\ results' = rs
         /\ BulkAdvance(i, rs)
  /\ UNCHANGED <<tool, args>>
  /\ UNCHANGED outside

\* variant: the inner catch only logs, no outcome is pushed for the item
coda_bulk_update_rows_rejected_nopush ==
  /\ pc = "await"
  /\ tool = "coda_bulk_update_rows"
  /\ \E error \in Thrown :
       /\ settled' = Append(settled, Rejected(error))
       /\ results' = results
       /\ BulkAdvance(i, results)
  /\ UNCHANGED <<tool, args>>
  /\ UNCHANGED outside

\* variant: the inner catch pushes the failure outcome and breaks the loop
coda_bulk_update_rows_rejected_break ==
  /\ pc = "await"
  /\ tool = "coda_bulk_update_rows"
  /\ \E error \in Thrown :
       LET rs == Append(results, FailureOutcome(args.updates[i], error))
       IN  /\ settled' = Append(settled, Rejected(error))
           /\ results' = rs
           /\ result' = Success(JSONstringify(BatchReport(args.updates, rs)))
  /\ pc' = "returned"
  /\ UNCHANGED <<tool, args, calls, i>>
  /\ UNCHANGED outside

\* variant: no inner try/catch, the rejection reaches the outer catch
coda_bulk_update_rows_rejected_rethrow ==
  /\ pc = "await"
  /\ tool = "coda_bulk_update_rows"
  /\ \E error \in Thrown :
       /\ settled' = Append(settled, Rejected(error))
       /\ result' = Failure("bulk update rows", error)
  /\ pc' = "returned"
  /\ UNCHANGED <<tool, args, calls, i, results>>
  /\ UNCHANGED outside

\* variant: the first rejected call of an invocation is issued once more
\* before the failure is recorded
coda_bulk_update_rows_rejected_retry ==
  /\ pc = "await"
  /\ tool = "coda_bulk_update_rows"
  /\ \E error \in Thrown :
       IF Len(calls) = i /\ \A k \in 1..Len(settled) : settled[k].status = "resolved"
       THEN /\ settled' = Append(settled, Rejected(error))
            /\ calls' = Append(calls, calls[Len(calls)])
            /\ UNCHANGED <<pc, i, results, result>>
       ELSE LET update == args.updates[i]
                rs == Append(results, FailureOutcome(update, error))
            IN  /\ settled' = Append(settled, Rejected(error))
                /\ results' = rs
                /\ BulkAdvance(i, rs)
  /\ UNCHANGED <<tool, args>>
  /\ UNCHANGED outside

\* the awaited updateRow call rejects: the inner catch pushes the failure
\* outcome, loop on
coda_bulk_update_rows_rejected ==
  /\ pc = "await"
  /\ tool = "coda_bulk_update_rows"
  /\ \E error \in Thrown :
       LET update == args.updates[i]
           rs == Append(results, FailureOutcome(update, error))
       IN  /\ settled' = Append(settled, Rejected(error))
           /\ results' = rs
           /\ BulkAdvance(i, rs)
  /\ UNCHANGED <<tool, args>>
  /\ UNCHANGED outside

\* ------------------------------------------------------ coda_list_documents
Queries == {undefined, Str(<< >>), Str(<<"q">>)}

Flags == {undefined, [type |-> "boolean", b |-> TRUE]}

\* answers of a resolved listDocs call
DocLists == { [items |-> << >>], [items |-> <<[id |-> "d1", name |-> "a"]>>] }

ListDocsCall(query, limit, isOwner, isPublished) ==
  [api |-> "listDocs",
   query |-> [query |-> query, limit |-> limit, isOwner |-> isOwner,
              isPublished |-> isPublished],
   throwOnError |-> TRUE]

coda_list_documents ==
  /\ pc = "idle"
  /\ \E query \in Queries, limit \in Limits, isOwner \in Flags, isPublished \in Flags :
       /\ args' = [query |-> query, limit |-> limit, isOwner |-> isOwner,
                   isPublished |-> isPublished]
       /\ calls' = <<ListDocsCall(query, limit, isOwner, isPublished)>>
  /\ tool' = "coda_list_documents"
  /\ pc' = "await"
  /\ UNCHANGED <<settled, i, results, result>>
  /\ UNCHANGED outside

coda_list_documents_resolved ==
  /\ Awaiting("coda_list_documents", "listDocs")
  /\ \E data \in DocLists :
       /\ settled' = Append(settled, Resolved(data))
       /\ result' = Success(JSONstringify(data))
  /\ pc' = "returned"
  /\ UNCHANGED <<tool, args, calls, i, results>>
  /\ UNCHANGED outside

\* variant: no try/catch, the rejection leaves the handler as an exception
coda_list_documents_rejected_uncaught ==
  /\ Awaiting("coda_list_documents", "listDocs")
  /\ \E error \in Thrown : settled' = Append(settled, Rejected(error))
  /\ pc' = "threw"
  /\ UNCHANGED <<tool, args, calls, i, results, result>>
  /\ UNCHANGED outside

coda_list_documents_rejected ==
  /\ Awaiting("coda_list_documents", "listDocs")
  /\ \E error \in Thrown :
       /\ settled' = Append(settled, Rejected(error))
       /\ result' = Failure("list documents", error)
  /\ pc' = "returned"
  /\ UNCHANGED <<tool, args, calls, i, results>>
  /\ UNCHANGED outside

\* ----------------------------------------------------------- coda_list_pages
Tokens == {undefined, Str(<< >>), Str(<<"t", "k">>)}

\* answers of a resolved listPages call
PageLists ==
  { [items |-> << >>],
    [items |-> <<[id |-> "p1", name |-> "a"]>>, nextPageToken |-> "tk"] }

\* const listLimit = nextPageToken ? undefined : limit
listLimit(limit, nextPageToken) ==
  IF Truthy(nextPageToken) THEN undefined ELSE limit

ListPagesCall(docId, limit, nextPageToken) ==
  [api |-> "listPages",
   path |-> [docId |-> docId],
   query |-> [limit |-> listLimit(limit, nextPageToken),
              pageToken |-> NullishCoalesce(nextPageToken, undefined)],
   throwOnError |-> TRUE]

coda_list_pages ==
  /\ pc = "idle"
  /\ \E docId \in DocIds, limit \in Limits, nextPageToken \in Tokens :
       /\ args' = [docId |-> docId, limit |-> limit, nextPageToken |-> nextPageToken]
       /\ calls' = <<ListPagesCall(docId, limit, nextPageToken)>>
  /\ tool' = "coda_list_pages"
  /\ pc' = "await"
  /\ UNCHANGED <<settled, i, results, result>>
  /\ UNCHANGED outside

coda_list_pages_resolved ==
  /\ pc = "await"
  /\ tool = "coda_list_pages"
  /\ \E data \in PageLists :
       /\ settled' = Append(settled, Resolved(data))
       /\ result' = Success(JSONstringify(data))
  /\ pc' = "returned"
  /\ UNCHANGED <<tool, args, calls, i, results>>
  /\ UNCHANGED outside

coda_list_pages_rejected ==
  /\ pc = "await"
  /\ tool = "coda_list_pages"
  /\ \E error \in Thrown :
       /\ settled' = Append(settled, Rejected(error))
       /\ result' = Failure("list pages", error)
  /\ pc' = "returned"
  /\ UNCHANGED <<tool, args, calls, i, results>>
  /\ UNCHANGED outside

\* ------------------------------------------------------------ page content
PageIds == {"p1"}

Chars == {"a", "b", "\r", "\n"}

\* what getPageContent can resolve with: a string, or undefined
Contents == {Str(chars) : chars \in SeqsUpTo(Chars, MaxLen)} \cup {undefined}

\* how an awaited getPageContent call can end
ContentOutcomes ==
  {Resolved(content) : content \in Contents} \cup {Rejected(error) : error \in Thrown}

GetPageContentCall(docId, pageIdOrName) ==
  [api |-> "getPageContent", docId |-> docId, pageIdOrName |-> pageIdOrName]

\* new Error("Unknown error has occurred")
UnknownError ==
  [instanceofError |-> TRUE, message |-> "Unknown error has occurred",
   String |-> "Error: Unknown error has occurred"]

\* ---------------------------------------------------- coda_get_page_content
\* variant: !content
get_page_content_missing_falsy(content) == ~Truthy(content)

\* variant: the check is left out
get_page_content_missing_never(content) == FALSE

\* content === undefined
get_page_content_missing(content) == content = undefined

\* the handler's code after `await getPageContent(...)` settled with outcome
get_page_content_return(outcome) ==
  IF outcome.status = "rejected"
  THEN Failure("get page content", outcome.error)
  ELSE IF get_page_content_missing(outcome.data)
       THEN Failure("get page content", UnknownError)
       ELSE Success(outcome.data)

coda_get_page_content ==
  /\ pc = "idle"
  /\ \E docId \in DocIds, pageIdOrName \in PageIds :
       /\ args' = [docId |-> docId, pageIdOrName |-> pageIdOrName]
       /\ calls' = <<GetPageContentCall(docId, pageIdOrName)>>
  /\ tool' = "coda_get_page_content"
  /\ pc' = "await"
  /\ UNCHANGED <<settled, i, results, result>>
  /\ UNCHANGED outside

coda_get_page_content_settled ==
  /\ pc = "await"
  /\ tool = "coda_get_page_content"
  /\ \E outcome \in ContentOutcomes :
       /\ settled' = Append(settled, outcome)
       /\ result' = get_page_content_return(outcome)
  /\ pc' = "returned"
  /\ UNCHANGED <<tool, args, calls, i, results>>
  /\ UNCHANGED outside

\* ----------------------------------------------------------- coda_peek_page
\* variant: the pattern is /\n/, a carriage return before it is not consumed
MatchEnd_lf_only(s, q) ==
  IF s[q] = "\n" THEN q + 1 ELSE 0

\* end (exclusive) of the match of /\r?\n/ that starts at position q, 0 if
\* the pattern does not match there
MatchEnd(s, q) ==
  IF s[q] = "\n" THEN q + 1
  ELSE IF s[q] = "\r" /\ q + 1 <= Len(s) /\ s[q + 1] = "\n" THEN q + 2
  ELSE 0

\* String.prototype.split with a pattern: p is the start of the current
\* piece, q the position the pattern is tried at
RECURSIVE SplitFrom(_, _, _, _)
SplitFrom(s, p, q, pieces) ==
  IF q > Len(s) THEN Append(pieces, SubSeq(s, p, Len(s)))
  ELSE LET e == MatchEnd(s, q)
       IN  IF e = 0 THEN SplitFrom(s, p, q + 1, pieces)
           ELSE SplitFrom(s, e, e, Append(pieces, SubSeq(s, p, q - 1)))

\* content.split(/\r?\n/)
split(s) == IF s = << >> THEN << << >> >> ELSE SplitFrom(s, 1, 1, << >>)

\* array.slice(0, n)
slice0(array, n) == SubSeq(array, 1, IF n < Len(array) THEN n ELSE Len(array))

\* array.join("\n")
RECURSIVE join(_)
join(array) ==
  IF array = << >> THEN << >>
  ELSE IF Len(array) = 1 THEN array[1]
  ELSE array[1] \o <<"\n">> \o join(Tail(array))

\* !content
peek_page_missing(content) == ~Truthy(content)

\* content.split(/\r?\n/).slice(0, numLines).join("\n")
preview(content, numLines) == Str(join(slice0(split(content.chars), numLines)))

\* the handler's code after `await getPageContent(...)` settled with outcome
peek_page_return(outcome, numLines) ==
  IF outcome.status = "rejected"
  THEN Failure("peek page", outcome.error)
  ELSE IF peek_page_missing(outcome.data)
       THEN Failure("peek page", UnknownError)
       ELSE Success(preview(outcome.data, numLines))

coda_peek_page ==
  /\ pc = "idle"
  /\ \E docId \in DocIds, pageIdOrName \in PageIds, numLines \in 1..MaxLines :
       /\ args' = [docId |-> docId, pageIdOrName |-> pageIdOrName,
                   numLines |-> numLines]
       /\ calls' = <<GetPageContentCall(docId, pageIdOrName)>>
  /\ tool' = "coda_peek_page"
  /\ pc' = "await"
  /\ UNCHANGED <<settled, i, results, result>>
  /\ UNCHANGED outside

coda_peek_page_settled ==
  /\ pc = "await"
  /\ tool = "coda_peek_page"
  /\ \E outcome \in ContentOutcomes :
       /\ settled' = Append(settled, outcome)
       /\ result' = peek_page_return(outcome, args.numLines)
  /\ pc' = "returned"
  /\ UNCHANGED <<tool, args, calls, i, results>>
  /\ UNCHANGED outside

\* ------------------------------------------------------ coda_duplicate_page
NewNames == {"n1"}

\* data the API answers a resolved createPage call with
CreatePageData == [id |-> "p2", requestId |-> "req"]

CreatePageCall(docId, newName, pageContent) ==
  [api |-> "createPage",
   path |-> [docId |-> docId],
   body |-> [name |-> newName,
             pageContent |-> [type |-> "canvas",
                              canvasContent |-> [format |-> "markdown",
                                                 content |-> pageContent]]],
   throwOnError |-> TRUE]

coda_duplicate_page ==
  /\ pc = "idle"
  /\ \E docId \in DocIds, pageIdOrName \in PageIds, newName \in NewNames :
       /\ args' = [docId |-> docId, pageIdOrName |-> pageIdOrName,
                   newName |-> newName]
       /\ calls' = <<GetPageContentCall(docId, pageIdOrName)>>
  /\ tool' = "coda_duplicate_page"
  /\ pc' = "await"
  /\ UNCHANGED <<settled, i, results, result>>
  /\ UNCHANGED outside

\* getPageContent resolves: createPage is called with what it resolved with
coda_duplicate_page_content_resolved ==
  /\ Awaiting("coda_duplicate_page", "getPageContent")
  /\ \E pageContent \in Contents :
       /\ settled' = Append(settled, Resolved(pageContent))
       /\ calls' = Append(calls, CreatePageCall(args.docId, args.newName, pageContent))
  /\ UNCHANGED <<tool, args, pc, i, results, result>>
  /\ UNCHANGED outside

\* variant: a failed read falls back to an empty page and goes on to create
coda_duplicate_page_content_rejected_fallback ==
  /\ Awaiting("coda_duplicate_page", "getPageContent")
  /\ \E error \in Thrown :
       /\ settled' = Append(settled, Rejected(error))
       /\ calls' = Append(calls, CreatePageCall(args.docId, args.newName, Str(<< >>)))
  /\ UNCHANGED <<tool, args, pc, i, results, result>>
  /\ UNCHANGED outside

\* getPageContent rejects: the catch returns the error, createPage is skipped
coda_duplicate_page_content_rejected ==
  /\ Awaiting("coda_duplicate_page", "getPageContent")
  /\ \E error \in Thrown :
       /\ settled' = Append(settled, Rejected(error))
       /\ result' = Failure("duplicate page", error)
  /\ pc' = "returned"
  /\ UNCHANGED <<tool, args, calls, i, results>>
  /\ UNCHANGED outside

coda_duplicate_page_create_resolved ==
  /\ Awaiting("coda_duplicate_page", "createPage")
  /\ settled' = Append(settled, Resolved(CreatePageData))
  /\ result' = Success(JSONstringify(CreatePageData))
  /\ pc' = "returned"
  /\ UNCHANGED <<tool, args, calls, i, results>>
  /\ UNCHANGED outside

\* variant: a failed create is reported as a success without data
coda_duplicate_page_create_rejected_swallowed ==
  /\ Awaiting("coda_duplicate_page", "createPage")
  /\ \E error \in Thrown :
       /\ settled' = Append(settled, Rejected(error))
       /\ result' = Success(JSONstringify(undefined))
  /\ pc' = "returned"
  /\ UNCHANGED <<tool, args, calls, i, results>>
  /\ UNCHANGED outside

coda_duplicate_page_create_rejected ==
  /\ Awaiting("coda_duplicate_page", "createPage")
  /\ \E error \in Thrown :
       /\ settled' = Append(settled, Rejected(error))
       /\ result' = Failure("duplicate page", error)
  /\ pc' = "returned"
  /\ UNCHANGED <<tool, args, calls, i, results>>
  /\ UNCHANGED outside

\* --------------------------------------------------------- coda_search_pages
\* page names and search queries, as character sequences
PageNames == {<<"a">>, <<"A", "b">>, <<"b">>}
SearchQueries == {<<"a">>, <<"B">>}

\* includeContent: absent, true or false
IncludeFlags ==
  {undefined, [type |-> "boolean", b |-> TRUE], [type |-> "boolean", b |-> FALSE]}

\* the default of the parameter: includeContent = false
includeContentOf(flag) == IF flag = undefined THEN FALSE ELSE flag.b

\* what getPageContent can resolve with for a page of the listing
SearchContents == {undefined, Str(<< >>), Str(<<"A">>), Str(<<"x", "b">>)}

\* the page listings: pages p1, p2, ... of the document, under any names
PageIdOf(k) == CASE k = 1 -> "p1" [] k = 2 -> "p2" [] k = 3 -> "p3" [] OTHER -> "p4"

SearchLists ==
  UNION {{[items |-> [k \in 1..n |-> [id |-> PageIdOf(k), name |-> names[k]]]] :
            names \in [1..n -> PageNames]} : n \in 0..MaxPages}

\* String.prototype.toLowerCase
toLowerCase(s) ==
  [k \in 1..Len(s) |-> CASE s[k] = "A" -> "a" [] s[k] = "B" -> "b" [] OTHER -> s[k]]

\* String.prototype.includes
includes(s, q) ==
  \E k \in 1..(Len(s) - Len(q) + 1) : SubSeq(s, k, k + Len(q) - 1) = q

\* array.filter(keep), keep given as the set of positions to keep
RECURSIVE FilterFrom(_, _, _)
FilterFrom(array, keep, k) ==
  IF k > Len(array) THEN << >>
  ELSE (IF k \in keep THEN <<array[k]>> ELSE << >>) \o FilterFrom(array, keep, k + 1)

\* items.filter(page => page.name.toLowerCase().includes(query.toLowerCase()))
nameMatches(items, query) ==
  FilterFrom(items,
             {k \in 1..Len(items) :
                includes(toLowerCase(items[k].name), toLowerCase(query))},
             1)

\* filteredPages.some(p => p.id === page.id)
some(pages, id) == \E k \in 1..Len(pages) : pages[k].id = id

ListPagesOfDocCall(docId) ==
  [api |-> "listPages", path |-> [docId |-> docId], throwOnError |-> TRUE]

\* the text of the result: the name matches, then the content matches
SearchReport(items, query, flag, contentMatches) ==
  LET filteredPages == nameMatches(items, query) \o contentMatches
  IN  [items |-> filteredPages,
       searchQuery |-> query,
       searchedContent |-> flag,
       totalFound |-> Len(filteredPages)]

\* variant: a page is added as a content match although it matches by name
contentMatchesWith_no_some(contentMatches, items, query, page, content) ==
  IF Truthy(content) /\ includes(toLowerCase(content.chars), toLowerCase(query))
  THEN Append(contentMatches,
              [id |-> page.id, name |-> page.name, matchedInContent |-> TRUE])
  ELSE contentMatches

\* the body of the inner try after getPageContent resolved with `content`
contentMatchesWith(contentMatches, items, query, page, content) ==
  IF /\ Truthy(content)
     /\ includes(toLowerCase(content.chars), toLowerCase(query))
     /\ ~some(nameMatches(items, query), page.id)
  THEN Append(contentMatches,
              [id |-> page.id, name |-> page.name, matchedInContent |-> TRUE])
  ELSE contentMatches

\* The for-of loop over the listing moves on to the page after position k:
\* it asks for that page's content and suspends, or, past the last page,
\* returns the report.
SearchAdvance(k, contentMatches) ==
  LET items == settled'[1].data.items
  IN  IF k < Len(items)
      THEN /\ i' = k + 1
           /\ calls' = Append(calls, GetPageContentCall(args.docId, items[k + 1].id))
           /\ pc' = "await"
           /\ result' = result
      ELSE /\ i' = k
           /\ calls' = calls
           /\ pc' = "returned"
           /\ result' = Success(JSONstringify(
                SearchReport(items, args.query, includeContentOf(args.includeContent),
                             contentMatches)))

\* the handler is invoked and asks for the pages of the document
coda_search_pages ==
  /\ pc = "idle"
  /\ \E docId \in DocIds, query \in SearchQueries, includeContent \in IncludeFlags :
       /\ args' = [docId |-> docId, query |-> query, includeContent |-> includeContent]
       /\ calls' = <<ListPagesOfDocCall(docId)>>
  /\ tool' = "coda_search_pages"
  /\ pc' = "await"
  /\ UNCHANGED <<settled, i, results, result>>
  /\ UNCHANGED outside

\* listPages resolves: filter by name; with includeContent start the loop
\* over all pages of the listing, else return the name matches
coda_search_pages_listed ==
  /\ Awaiting("coda_search_pages", "listPages")
  /\ \E data \in SearchLists :
       /\ settled' = Append(settled, Resolved(data))
       /\ IF includeContentOf(args.includeContent)
          THEN SearchAdvance(0, << >>)
          ELSE /\ pc' = "returned"
               /\ result' = Success(JSONstringify(
                    SearchReport(data.items, args.query, FALSE, << >>)))
               /\ UNCHANGED <<calls, i>>
  /\ results' = << >>
  /\ UNCHANGED <<tool, args>>
  /\ UNCHANGED outside

\* listPages rejects: the outer catch
coda_search_pages_list_rejected ==
  /\ Awaiting("coda_search_pages", "listPages")
  /\ \E error \in Thrown :
       /\ settled' = Append(settled, Rejected(error))
       /\ result' = Failure("search pages", error)
  /\ pc' = "returned"
  /\ UNCHANGED <<tool, args, calls, i, results>>
  /\ UNCHANGED outside

\* getPageContent of the page at position i resolves
coda_search_pages_content_resolved ==
  /\ Awaiting("coda_search_pages", "getPageContent")
  /\ \E content \in SearchContents :
       LET items == settled[1].data.items
           matches == contentMatchesWith(results, items, args.query, items[i], content)
       IN  /\ settled' = Append(settled, Resolved(content))
           /\ results' = matches
           /\ SearchAdvance(i, matches)
  /\ UNCHANGED <<tool, args>>
  /\ UNCHANGED outside

\* variant: no inner try/catch, the rejection reaches the outer catch
coda_search_pages_content_rejected_rethrow ==
  /\ Awaiting("coda_search_pages", "getPageContent")
  /\ \E error \in Thrown :
       /\ settled' = Append(settled, Rejected(error))
       /\ result' = Failure("search pages", error)
  /\ pc' = "returned"
  /\ UNCHANGED <<tool, args, calls, i, results>>
  /\ UNCHANGED outside

\* getPageContent of the page at position i rejects: the inner catch logs
\* the failure and the loop goes on
coda_search_pages_content_rejected ==
  /\ Awaiting("coda_search_pages", "getPageContent")
  /\ \E error \in Thrown :
       /\ settled' = Append(settled, Rejected(error))
       /\ SearchAdvance(i, results)
  /\ UNCHANGED <<tool, args, results>>
  /\ UNCHANGED outside

\* ----------------------------------------------------------------- caller
\* The caller's deadline passes, or it cancels the request, while the handler
\* is suspended on an API call.  The handlers take only their arguments
\* (`async ({ docId, tableIdOrName, updates })`): none reads the abort signal
\* of the request, so nothing of the invocation changes.
Cancel ==
  /\ pc = "await"
  /\ ~cancelled
  /\ cancelled' = TRUE
  /\ UNCHANGED <<handler, resolver, startup, parked>>

\* ------------------------------------------------------------ concurrency
\* Two invocations run on the one event loop.  A handler runs until it
\* suspends on an await or returns; then the other invocation can run.  All
\* a handler works on (its arguments, `results`, the loop position) is local
\* to the call of the handler function, so the whole handler state goes with
\* the invocation.
Running ==
  [tool |-> tool, args |-> args, pc |-> pc, calls |-> calls,
   settled |-> settled, i |-> i, results |-> results, result |-> result]

\* variant: `results` is one array of the module, shared by the invocations
Switch_shared_results ==
  /\ pc \in {"idle", "await", "returned"}
  /\ parked' = Running
  /\ tool' = parked.tool
  /\ args' = parked.args
  /\ pc' = parked.pc
  /\ calls' = parked.calls
  /\ settled' = parked.settled
  /\ i' = parked.i
  /\ result' = parked.result
  /\ UNCHANGED results
  /\ UNCHANGED <<cancelled, resolver, startup>>

\* the running invocation is suspended or over, the other one gets to run
Switch ==
  /\ pc \in {"idle", "await", "returned"}
  /\ parked' = Running
  /\ tool' = parked.tool
  /\ args' = parked.args
  /\ pc' = parked.pc
  /\ calls' = parked.calls
  /\ settled' = parked.settled
  /\ i' = parked.i
  /\ results' = parked.results
  /\ result' = parked.result
  /\ UNCHANGED <<cancelled, resolver, startup>>

\* the inputs and API answers two concurrent invocations are run with
SmallRun ==
  /\ tool # "none" => args.docId = "d1"
  /\ tool = "coda_bulk_update_rows" =>
       /\ Len(args.updates) <= MaxConcurrentUpdates
       /\ \A k \in 1..Len(args.updates) : args.updates[k].values = << >>
  /\ \A k \in 1..Len(settled) :
       IF settled[k].status = "rejected"
       THEN settled[k].error.instanceofError
       ELSE tool = "coda_get_page_content" =>
              (settled[k].data = undefined
               \/ Len(settled[k].data.chars) <= MaxConcurrentLen)

concurrent_bulk_update_rows == coda_bulk_update_rows /\ SmallRun'

concurrent_bulk_update_rows_resolved ==
  coda_bulk_update_rows_resolved /\ SmallRun'

concurrent_bulk_update_rows_rejected ==
  coda_bulk_update_rows_rejected /\ SmallRun'

concurrent_get_page_content == coda_get_page_content /\ SmallRun'

concurrent_get_page_content_settled ==
  coda_get_page_content_settled /\ SmallRun'

\* ------------------------------------------------------ Export-Poll Resolver
\* resolveContent(docId, pageId) -> text: getPageContent of ./client/helpers,
\* after section 4.1 of the design: submit an export, poll its status at a
\* fixed interval within a wait budget, fetch the download on Complete.
Budgets == 1..MaxWait

\* marks an optional field that is not there
absent == "absent"

ExportIds == {"e1"}
DownloadRefs == {"ref1"}
Reasons == {"export failed", "page locked"}

\* raw text a download can hold
Texts == {Str(chars) : chars \in SeqsUpTo(Chars, MaxLen)}

\* {exportId, status}: the ExportJob handle; an absent or malformed handle
\* has no exportId
Handles ==
  [exportId : ExportIds \cup {absent}, status : {"Pending", "Complete"}]

\* {status, downloadRef?, error?}
StatusResponses ==
  {[status |-> "Pending", downloadRef |-> absent, error |-> absent]}
  \cup [status : {"Complete"}, downloadRef : DownloadRefs \cup {absent},
        error : {absent}]
  \cup [status : {"Failed"}, downloadRef : {absent}, error : Reasons]

RetrievalError(name, reason) ==
  [instanceofError |-> TRUE, name |-> name, message |-> reason,
   String |-> name \o ": " \o reason]

TimeoutError == RetrievalError("TimeoutError", "wait budget exceeded")
UpstreamExportError(reason) == RetrievalError("UpstreamExportError", reason)
MalformedJob == RetrievalError("RetrievalError", "no usable export job")

SubmitExportCall(docId, pageId) ==
  [api |-> "submitExport", docId |-> docId, pageId |-> pageId,
   format |-> "markdown"]

GetExportStatusCall(docId, exportId) ==
  [api |-> "getExportStatus", docId |-> docId, exportId |-> exportId]

FetchDownloadCall(downloadRef) ==
  [api |-> "fetchDownload", downloadRef |-> downloadRef]

\* resolveContent fails: the call is over and returns no content
Fail(error) ==
  /\ rpc' = "done"
  /\ routcome' = Rejected(error)
  /\ UNCHANGED <<rargs, waited, rcalls>>

\* variant: past the wait budget the resolver gives up with an empty text
PollAgain_empty ==
  IF waited >= rargs.budget
  THEN /\ rpc' = "done"
       /\ routcome' = Resolved(Str(<< >>))
       /\ UNCHANGED <<rargs, waited, rcalls>>
  ELSE /\ rpc' = "sleep"
       /\ UNCHANGED <<rargs, waited, rcalls, routcome>>

\* variant: after a Pending answer the status is asked again at once,
\* without suspending for the interval
PollAgain_busy ==
  IF rsettled = << >>
  THEN /\ rpc' = "sleep"
       /\ UNCHANGED <<rargs, waited, rcalls, routcome>>
  ELSE /\ rcalls' = Append(rcalls,
                      GetExportStatusCall(rargs.docId, rsettled[1].data.exportId))
       /\ rpc' = "poll"
       /\ UNCHANGED <<rargs, waited, routcome>>

\* step 2, head of the poll loop: past the wait budget fail with
\* TimeoutError, else suspend for the poll interval
PollAgain ==
  IF waited >= rargs.budget
  THEN Fail(TimeoutError)
  ELSE /\ rpc' = "sleep"
       /\ UNCHANGED <<rargs, waited, rcalls, routcome>>

\* variant: a Failed job is answered with an empty text
OnStatus_failed_empty(response) ==
  CASE response.status = "Pending" -> PollAgain
    [] response.status = "Failed" ->
         /\ rpc' = "done"
         /\ routcome' = Resolved(Str(<< >>))
         /\ UNCHANGED <<rargs, waited, rcalls>>
    [] response.status = "Complete" /\ response.downloadRef = absent ->
         Fail(MalformedJob)
    [] OTHER ->
         /\ rcalls' = Append(rcalls, FetchDownloadCall(response.downloadRef))
         /\ rpc' = "fetch"
         /\ UNCHANGED <<rargs, waited, routcome>>

\* steps 2 to 4: what the resolver does with a status response
OnStatus(response) ==
  CASE response.status = "Pending" -> PollAgain
    [] response.status = "Failed" -> Fail(UpstreamExportError(response.error))
    [] response.status = "Complete" /\ response.downloadRef = absent ->
         Fail(MalformedJob)
    [] OTHER ->
         /\ rcalls' = Append(rcalls, FetchDownloadCall(response.downloadRef))
         /\ rpc' = "fetch"
         /\ UNCHANGED <<rargs, waited, routcome>>

\* step 1: resolveContent is called and submits the export request
resolveContent ==
  /\ rpc = "idle"
  /\ \E docId \in DocIds, pageId \in PageIds, budget \in Budgets :
       /\ rargs' = [docId |-> docId, pageId |-> pageId, budget |-> budget]
       /\ rcalls' = <<SubmitExportCall(docId, pageId)>>
  /\ rpc' = "submit"
  /\ UNCHANGED <<waited, rsettled, routcome>>
  /\ UNCHANGED <<handler, cancelled, startup, parked>>

\* submitExport resolves with a job handle: a handle without an exportId
\* fails the call, a usable one starts the poll loop
resolveContent_submitted ==
  /\ rpc = "submit"
  /\ \E handle \in Handles :
       /\ rsettled' = Append(rsettled, Resolved(handle))
       /\ IF handle.exportId = absent THEN Fail(MalformedJob) ELSE PollAgain
  /\ UNCHANGED <<handler, cancelled, startup, parked>>

\* the poll interval has elapsed: re-check the status of the job
resolveContent_interval_elapsed ==
  /\ rpc = "sleep"
  /\ waited' = waited + 1
  /\ rcalls' = Append(rcalls,
                 GetExportStatusCall(rargs.docId, rsettled[1].data.exportId))
  /\ rpc' = "poll"
  /\ UNCHANGED <<rargs, rsettled, routcome>>
  /\ UNCHANGED <<handler, cancelled, startup, parked>>

\* getExportStatus resolves
resolveContent_status ==
  /\ rpc = "poll"
  /\ \E response \in StatusResponses :
       /\ rsettled' = Append(rsettled, Resolved(response))
       /\ OnStatus(response)
  /\ UNCHANGED <<handler, cancelled, startup, parked>>

\* step 3: fetchDownload resolves with the raw text, which is returned
resolveContent_fetched ==
  /\ rpc = "fetch"
  /\ \E text \in Texts :
       /\ rsettled' = Append(rsettled, Resolved(text))
       /\ routcome' = Resolved(text)
  /\ rpc' = "done"
  /\ UNCHANGED <<rargs, waited, rcalls>>
  /\ UNCHANGED <<handler, cancelled, startup, parked>>

\* a call of the API Client fails: the transport failure propagates unmodified
resolveContent_transport_failed ==
  /\ rpc \in {"submit", "poll", "fetch"}
  /\ \E error \in Thrown :
       /\ rsettled' = Append(rsettled, Rejected(error))
       /\ Fail(error)
  /\ UNCHANGED <<handler, cancelled, startup, parked>>

\* ------------------------------------------------------------------- spec
\* a suspended handler resumes: its awaited call resolved or rejected
Settle ==
  \/ coda_bulk_update_rows_resolved
  \/ coda_bulk_update_rows_rejected
  \/ coda_list_documents_resolved
  \/ coda_list_documents_rejected
  \/ coda_list_pages_resolved
  \/ coda_list_pages_rejected
  \/ coda_get_page_content_settled
  \/ coda_peek_page_settled
  \/ coda_duplicate_page_content_resolved
  \/ coda_duplicate_page_content_rejected
  \/ coda_duplicate_page_create_resolved
  \/ coda_duplicate_page_create_rejected
  \/ coda_search_pages_listed
  \/ coda_search_pages_list_rejected
  \/ coda_search_pages_content_resolved
  \/ coda_search_pages_content_rejected

\* a tool is called
Invoke ==
  \/ coda_bulk_update_rows
  \/ coda_list_documents
  \/ coda_list_pages
  \/ coda_get_page_content
  \/ coda_peek_page
  \/ coda_duplicate_page
  \/ coda_search_pages

Next == main \/ Invoke \/ Settle \/ Cancel

Spec == Init /\ [][Next]_vars

\* the invocations of coda_bulk_update_rows whose caller waits for the result
BulkSettle ==
  \/ coda_bulk_update_rows_resolved
  \/ coda_bulk_update_rows_rejected

BulkNext == main \/ coda_bulk_update_rows \/ BulkSettle

\* every awaited updateRow call settles and the event loop then resumes the
\* handler
FairSpec == Init /\ [][BulkNext]_vars /\ WF_vars(BulkSettle)

\* the resolver resumes: an API Client call settled or the interval elapsed
Resume ==
  \/ resolveContent_submitted
  \/ resolveContent_interval_elapsed
  \/ resolveContent_status
  \/ resolveContent_fetched
  \/ resolveContent_transport_failed

ResolverNext == resolveContent \/ Resume

\* two invocations of coda_bulk_update_rows or coda_get_page_content, run
\* under every interleaving of their suspension points
ConcurrentNext ==
  \/ main
  \/ concurrent_bulk_update_rows
  \/ concurrent_bulk_update_rows_resolved
  \/ concurrent_bulk_update_rows_rejected
  \/ concurrent_get_page_content
  \/ concurrent_get_page_content_settled
  \/ Switch

ConcurrentSpec == Init /\ [][ConcurrentNext]_vars

\* the resolver runs in a process that was given its API key
ResolverInit == Init /\ Truthy(env)

ResolverSpec == ResolverInit /\ [][ResolverNext]_vars

\* every API Client call settles and every interval timer fires
FairResolverSpec == ResolverSpec /\ WF_vars(Resume)

\* ======================================================= properties
Returned(name) == tool = name /\ pc = "returned"

\* the BatchReport encoded in the returned text
Report == result.text.json

\* C1: the report of coda_bulk_update_rows has one entry per item of updates,
\* and entry k carries the row id of item k, whatever calls failed.
C1_OneOutcomePerItemInOrder ==
  (Returned("coda_bulk_update_rows") /\ ~result.isError) =>
    /\ Len(Report.results) = Len(args.updates)
    /\ \A k \in 1..Len(args.updates) :
         Report.results[k].rowId = args.updates[k].rowIdOrName

\* a batch with a duplicate row id and mixed outcomes has been reported
C1_Witness ==
  /\ Returned("coda_bulk_update_rows")
  /\ ~result.isError
  /\ Len(args.updates) = MaxUpdates
  /\ args.updates[1].rowIdOrName = args.updates[2].rowIdOrName
  /\ args.updates[1].rowIdOrName # args.updates[MaxUpdates].rowIdOrName
  /\ settled[1].status = "rejected"
  /\ settled[2].status = "resolved"
  /\ Len(Report.results) = MaxUpdates

\* C2: every returned report has len(results) = totalUpdates = successful +
\* failed.
C2_CountsConsistent ==
  (Returned("coda_bulk_update_rows") /\ ~result.isError) =>
    /\ Len(Report.results) = Report.totalUpdates
    /\ Report.totalUpdates = Report.successful + Report.failed

\* a report on the same row failing twice with the same error
C2_Witness ==
  /\ Returned("coda_bulk_update_rows")
  /\ ~result.isError
  /\ Len(args.updates) >= 2
  /\ args.updates[1] = args.updates[2]
  /\ settled[1].status = "rejected"
  /\ settled[2] = settled[1]
  /\ Report.failed >= 2

\* C3: an updateRow call is eventually issued for every item of the batch,
\* whichever earlier calls failed.
C3_EveryItemAttempted ==
  \A k \in 1..MaxUpdates :
    (tool = "coda_bulk_update_rows" /\ Len(args.updates) >= k)
      ~> (/\ Len(calls) >= k
          /\ calls[k].api = "updateRow"
          /\ calls[k].path.rowIdOrName = args.updates[k].rowIdOrName)

\* [A ok, B fails, C ok]: results [success, failure, success], counts 3/2/1
C3_Witness ==
  /\ Returned("coda_bulk_update_rows")
  /\ ~result.isError
  /\ Len(args.updates) = 3
  /\ <<settled[1].status, settled[2].status, settled[3].status>>
       = <<"resolved", "rejected", "resolved">>
  /\ Len(calls) = 3
  /\ <<Report.results[1].success, Report.results[2].success,
       Report.results[3].success>> = <<TRUE, FALSE, TRUE>>
  /\ Report.totalUpdates = 3
  /\ Report.successful = 2
  /\ Report.failed = 1

\* C4: results[k].success is true exactly when the call for item k resolved,
\* false with the error message recorded exactly when it rejected, and the
\* tool result is never error-flagged.
C4_FailuresRecordedNotThrown ==
  tool = "coda_bulk_update_rows" =>
    /\ Len(results) = Len(settled)
    /\ \A k \in 1..Len(settled) :
         /\ results[k].success <=> settled[k].status = "resolved"
         /\ settled[k].status = "rejected" =>
              results[k].error =
                IF settled[k].error.instanceofError
                THEN settled[k].error.message ELSE settled[k].error.String
    /\ pc = "returned" => (~result.isError /\ Report.results = results)

\* every item of a batch failed and the report is still a plain result
C4_Witness ==
  /\ Returned("coda_bulk_update_rows")
  /\ Len(args.updates) >= 2
  /\ \A k \in 1..Len(settled) : settled[k].status = "rejected"
  /\ Len(settled) = Len(args.updates)
  /\ ~result.isError
  /\ Report.successful = 0

\* C5: an empty updates array issues no updateRow call and is reported with
\* an empty results list and all counts zero.
C5_EmptyBatch ==
  (tool = "coda_bulk_update_rows" /\ args.updates = << >>) =>
    /\ calls = << >>
    /\ pc = "returned"
    /\ ~result.isError
    /\ Report = [results |-> << >>, totalUpdates |-> 0,
                 successful |-> 0, failed |-> 0]

C5_Witness ==
  /\ Returned("coda_bulk_update_rows")
  /\ args.updates = << >>
  /\ result.returned

\* C6: with a cursor token present the listPages call carries no limit and
\* the token; with it absent, the supplied limit and no token; never both a
\* limit and a cursor.
C6_CursorOverLimit ==
  (tool = "coda_list_pages") =>
    LET query == calls[1].query
        present == args.nextPageToken # undefined
    IN  /\ present => (query.limit = undefined /\ query.pageToken = args.nextPageToken)
        /\ ~present => (query.limit = args.limit /\ query.pageToken = undefined)
        /\ ~(query.limit # undefined /\ query.pageToken # undefined)

\* C7: coda_get_page_content returns exactly the string content retrieval
\* produced, the empty string included, as a success.
C7_ContentReturnedUnchanged ==
  (/\ Returned("coda_get_page_content")
   /\ settled[1].status = "resolved"
   /\ settled[1].data.type = "string") =>
    /\ ~result.isError
    /\ result.text = settled[1].data

\* the empty page has been returned
C7_Witness ==
  /\ Returned("coda_get_page_content")
  /\ settled[1] = Resolved(Str(<< >>))
  /\ result.returned

\* C8: coda_get_page_content returns an error-flagged 'Failed to get page
\* content : <reason>' when retrieval throws or yields undefined.
C8_NoSuccessWithoutContent ==
  Returned("coda_get_page_content") =>
    /\ settled[1].status = "rejected" =>
         /\ result.isError
         /\ result.text = "Failed to get page content : " \o
              (IF settled[1].error.instanceofError
               THEN settled[1].error.message ELSE settled[1].error.String)
    /\ (settled[1].status = "resolved" /\ settled[1].data = undefined) =>
         /\ result.isError
         /\ result.text = "Failed to get page content : Unknown error has occurred"

\* retrieval yielded undefined and the handler has returned
C8_Witness ==
  /\ Returned("coda_get_page_content")
  /\ settled[1] = Resolved(undefined)
  /\ result.returned

\* the lines of s: the pieces between its "\n" characters, each without the
\* "\r" that directly precedes its "\n"
Lines(s) ==
  LET breaks == {k \in 1..Len(s) : s[k] = "\n"}
      nth(m) == CHOOSE k \in breaks : Cardinality({x \in breaks : x < k}) = m - 1
      line(j) ==
        LET start == IF j = 1 THEN 1 ELSE nth(j - 1) + 1
            stop == IF j <= Cardinality(breaks)
                    THEN IF nth(j) - 1 >= start /\ s[nth(j) - 1] = "\r"
                         THEN nth(j) - 2 ELSE nth(j) - 1
                    ELSE Len(s)
        IN  SubSeq(s, start, stop)
  IN  [j \in 1..(Cardinality(breaks) + 1) |-> line(j)]

\* what coda_get_page_content returns on the retrieval outcome of this call
SameRetrievalGet == get_page_content_return(settled[1])

\* C9: coda_peek_page(d, p, n) returns the first n lines of what
\* coda_get_page_content(d, p) returns, joined by "\n".
C9_PeekIsFirstLines ==
  (Returned("coda_peek_page") /\ ~SameRetrievalGet.isError) =>
    /\ ~result.isError
    /\ result.text =
         Str(join(slice0(Lines(SameRetrievalGet.text.chars), args.numLines)))

\* C10: coda_peek_page succeeds wherever coda_get_page_content succeeds; the
\* peek of the empty string is the empty string.
C10_PeekSucceedsWhereGetDoes ==
  (Returned("coda_peek_page") /\ ~SameRetrievalGet.isError) =>
    /\ ~result.isError
    /\ settled[1].data = Str(<< >>) => result.text = Str(<< >>)

\* s with every "\r\n" line break replaced by "\n": the characters of s
\* without each "\r" that directly precedes a "\n"
Normalised(s) ==
  LET keep == {k \in 1..Len(s) : ~(s[k] = "\r" /\ k < Len(s) /\ s[k + 1] = "\n")}
      nth(m) == CHOOSE k \in keep : Cardinality({x \in keep : x < k}) = m - 1
  IN  [m \in 1..Cardinality(keep) |-> s[nth(m)]]

\* C11: for numLines at least the line count of the content, coda_peek_page
\* returns the whole content with every line break turned into "\n".
C11_PeekAllLinesIsFullContent ==
  (/\ Returned("coda_peek_page")
   /\ settled[1].status = "resolved"
   /\ settled[1].data.type = "string"
   /\ args.numLines >= Len(Lines(settled[1].data.chars))) =>
    /\ ~result.isError
    /\ result.text = Str(Normalised(settled[1].data.chars))

\* the createPage calls the invocation has issued
CreatePageCalls == {k \in 1..Len(calls) : calls[k].api = "createPage"}

\* C12: when content retrieval for the source page fails, coda_duplicate_page
\* never calls createPage and returns the error-flagged 'Failed to duplicate
\* page : <read reason>'.
C12_NoCreateAfterFailedRead ==
  (/\ tool = "coda_duplicate_page"
   /\ Len(settled) >= 1
   /\ settled[1].status = "rejected") =>
    /\ CreatePageCalls = {}
    /\ pc = "returned"
    /\ result.isError
    /\ result.text = "Failed to duplicate page : " \o
         (IF settled[1].error.instanceofError
          THEN settled[1].error.message ELSE settled[1].error.String)

\* the read of the source page was rejected and the handler has returned
C12_Witness ==
  /\ Returned("coda_duplicate_page")
  /\ settled = <<Rejected([instanceofError |-> TRUE, message |-> "boom",
                           String |-> "Error: boom"])>>
  /\ Len(calls) = 1
  /\ result.isError

\* C13: coda_duplicate_page reports success only when both the read and the
\* create call resolved; a rejected createPage gives the error-flagged 'Failed
\* to duplicate page : <create reason>'; createPage is called at most once.
C13_SuccessNeedsBothSteps ==
  tool = "coda_duplicate_page" =>
    /\ Cardinality(CreatePageCalls) <= 1
    /\ pc = "returned" =>
         /\ ~result.isError =>
              /\ Len(settled) = 2
              /\ settled[1].status = "resolved"
              /\ settled[2].status = "resolved"
         /\ (Len(settled) = 2 /\ settled[2].status = "rejected") =>
              /\ result.isError
              /\ result.text = "Failed to duplicate page : " \o
                   (IF settled[2].error.instanceofError
                    THEN settled[2].error.message ELSE settled[2].error.String)

\* the read resolved with a page, createPage was rejected, the handler returned
C13_Witness ==
  /\ Returned("coda_duplicate_page")
  /\ Len(settled) = 2
  /\ settled[1] = Resolved(Str(<<"a">>))
  /\ settled[2].status = "rejected"
  /\ Cardinality(CreatePageCalls) = 1
  /\ result.isError

\* the operation a tool names in its error text
Operation ==
  CASE tool = "coda_list_documents"   -> "list documents"
    [] tool = "coda_list_pages"       -> "list pages"
    [] tool = "coda_get_page_content" -> "get page content"
    [] tool = "coda_peek_page"        -> "peek page"
    [] tool = "coda_duplicate_page"   -> "duplicate page"
    [] tool = "coda_bulk_update_rows" -> "bulk update rows"
    [] tool = "coda_search_pages"     -> "search pages"
    [] OTHER                          -> "none"

\* the calls of the invocation that were rejected
RejectedCalls == {k \in 1..Len(settled) : settled[k].status = "rejected"}

ReasonOf(k) ==
  IF settled[k].error.instanceofError
  THEN settled[k].error.message ELSE settled[k].error.String

\* C14 as stated: a handler that has finished has returned one result, and
\* whichever API call failed the result is error-flagged 'Failed to
\* <operation> : <reason>'; without a failed call it is not error-flagged.
C14_AnyFailedCallFlagsResult ==
  /\ pc # "threw"
  /\ pc = "returned" <=> result.returned
  /\ pc = "returned" =>
       /\ RejectedCalls # {} =>
            /\ result.isError
            /\ \E k \in RejectedCalls :
                 result.text = "Failed to " \o Operation \o " : " \o ReasonOf(k)
       /\ result.isError =>
            \/ RejectedCalls # {}
            \/ result.text = "Failed to " \o Operation \o " : Unknown error has occurred"

\* the rejected calls that no inner try/catch of a loop catches: all but
\* an updateRow of coda_bulk_update_rows and a getPageContent of
\* coda_search_pages
UncaughtCalls ==
  {k \in RejectedCalls :
     /\ ~(tool = "coda_bulk_update_rows" /\ calls[k].api = "updateRow")
     /\ ~(tool = "coda_search_pages" /\ calls[k].api = "getPageContent")}

\* C14, amended: a handler that has finished has returned one result, which
\* is either error-flagged 'Failed to <operation> : <reason>' or a payload
\* that is not error-flagged; a failed API call flags the result with its
\* reason, except in the tools that catch the failure of a single item.
C14_OneResultErrorOrPayload ==
  /\ pc # "threw"
  /\ pc = "returned" <=> result.returned
  /\ pc = "returned" =>
       /\ UncaughtCalls # {} =>
            /\ result.isError
            /\ \E k \in UncaughtCalls :
                 result.text = "Failed to " \o Operation \o " : " \o ReasonOf(k)
       /\ result.isError =>
            \/ UncaughtCalls # {}
            \/ result.text = "Failed to " \o Operation \o " : Unknown error has occurred"

\* listDocs was rejected with a value that is not an Error, and the handler
\* returned the error-flagged text
C14_Witness ==
  /\ Returned("coda_list_documents")
  /\ settled = <<Rejected([instanceofError |-> FALSE, message |-> "none",
                           String |-> "raw"])>>
  /\ result = [isError |-> TRUE, text |-> "Failed to list documents : raw",
               returned |-> TRUE]

\* C15: once the caller's deadline is reached while coda_bulk_update_rows is
\* applying a batch, no further updateRow call is issued, and the invocation
\* does not end with the report of a batch run to its end: what it returns is
\* an error-flagged Timeout/Cancelled result.
C15_StopsAtDeadline ==
  [][(tool = "coda_bulk_update_rows" /\ cancelled) =>
       /\ Len(calls') = Len(calls)
       /\ pc' = "returned" => result'.isError]_vars

\* the k-th call of the resolver was a status poll answered with `status`
PollSaw(k, status) ==
  /\ rsettled[k].status = "resolved"
  /\ rcalls[k].api = "getExportStatus"
  /\ rsettled[k].data.status = status

\* the export was submitted and every poll the wait budget allows has been
\* answered Pending
StayedPending ==
  /\ rpc # "idle"
  /\ waited = rargs.budget
  /\ Len(rsettled) = Len(rcalls)
  /\ \A k \in 2..Len(rsettled) : PollSaw(k, "Pending")

\* C16: resolveContent always terminates: it polls the status at most as
\* often as the wait budget allows, a job still Pending when the budget is
\* used up makes the call fail with TimeoutError, not return content, and
\* every call that started comes to its end.
C16_ResolveContentTerminates ==
  /\ [](rpc # "idle" => waited <= rargs.budget)
  /\ [](StayedPending => rpc = "done" /\ routcome = Rejected(TimeoutError))
  /\ (rpc # "idle" ~> rpc = "done")

C16_Witness ==
  /\ StayedPending
  /\ Len(rcalls) = 1 + rargs.budget
  /\ routcome = Rejected(TimeoutError)

\* C17: when a status poll reports the job Failed, resolveContent fails with
\* UpstreamExportError carrying the reported reason, calls fetchDownload
\* never, and returns no content.
C17_FailedJobFailsTheCall ==
  \A k \in 1..Len(rsettled) :
    PollSaw(k, "Failed") =>
      /\ rpc = "done"
      /\ routcome = Rejected(UpstreamExportError(rsettled[k].data.error))
      /\ routcome.status # "resolved"
      /\ \A j \in 1..Len(rcalls) : rcalls[j].api # "fetchDownload"

C17_Witness ==
  /\ rpc = "done"
  /\ PollSaw(Len(rsettled), "Failed")
  /\ waited > 1

Range(s) == {s[k] : k \in 1..Len(s)}

\* C18: the tools the server registers are exactly the expected tool names:
\* every expected name is registered, as many tools are registered as names
\* are expected, and no other tool is registered.
C18_RegisteredToolsAreExpected ==
  /\ Range(expectedToolNames) \subseteq Range(listTools)
  /\ Len(listTools) = Len(expectedToolNames)
  /\ Range(listTools) \subseteq Range(expectedToolNames)

\* C19: with API_KEY missing or empty the start fails before any connection:
\* main rejects with the error of getConfig, which says that the API_KEY
\* environment variable is required, and server.connect is never called.
C19_NoConnectWithoutApiKey ==
  (env = undefined \/ env = Str(<< >>)) =>
    /\ connects = 0
    /\ pc \in {"start", "exited"}
    /\ pc = "exited" =>
         /\ mainResult.status = "rejected"
         /\ mainResult.error.message = "The API_KEY environment variable is required to start the Coda MCP server. Please set API_KEY to your Coda API token."

C19_Witness ==
  /\ env = Str(<< >>)
  /\ pc = "exited"
  /\ mainResult.status = "rejected"

\* C20: coda_bulk_update_rows applies the items one after the other in input
\* order: at most one updateRow call of the invocation has not settled yet,
\* so the call for an item is issued only after the calls for all items
\* before it have settled, and the k-th call issued is the call for item k.
C20_SequentialInInputOrder ==
  tool = "coda_bulk_update_rows" =>
    /\ Len(calls) <= Len(settled) + 1
    /\ Len(calls) <= Len(args.updates)
    /\ \A k \in 1..Len(calls) :
         calls[k] = UpdateRowCall(args.docId, args.tableIdOrName,
                                  args.updates[k])

C20_Witness ==
  /\ tool = "coda_bulk_update_rows"
  /\ Len(calls) = 2
  /\ Len(settled) = 1
  /\ args.updates[1] # args.updates[2]

\* the calls made so far are the updateRow calls of the first items, one per
\* item and in their order, against the docId and tableIdOrName given, and a
\* returned invocation has made the call of every item
OneCallPerItem ==
  /\ Len(calls) <= Len(args.updates)
  /\ \A k \in 1..Len(calls) :
       calls[k] = UpdateRowCall(args.docId, args.tableIdOrName, args.updates[k])
  /\ pc = "returned" => Len(calls) = Len(args.updates)

\* the outcome of an item whose call resolved is its success outcome, also
\* in the report
SuccessStays ==
  \A j \in 1..Len(settled) :
    settled[j].status = "resolved" =>
      /\ j <= Len(results)
      /\ results[j] = SuccessOutcome(args.updates[j], settled[j].data)
      /\ pc = "returned" => Report.results[j] = results[j]

\* C21 as stated: one updateRow call per item and no other call; once an
\* item has failed, no call made afterwards names a row whose update had
\* succeeded before that failure; a success outcome stays in the report.
C21_NoCallTouchesSucceededRow ==
  tool = "coda_bulk_update_rows" =>
    /\ OneCallPerItem
    /\ SuccessStays
    /\ \A j \in 1..Len(settled), k \in 1..Len(settled), m \in 1..Len(calls) :
         (/\ j < k /\ k < m
          /\ settled[j].status = "resolved"
          /\ settled[k].status = "rejected") =>
           calls[m].path.rowIdOrName # calls[j].path.rowIdOrName

\* C21, amended: one updateRow call per item, in input order, and no other
\* call (no retry of a failed item, no rollback of a succeeded one); a
\* success outcome stays in the report whatever happens to later items.
C21_NoRollbackNoRetry ==
  tool = "coda_bulk_update_rows" => (OneCallPerItem /\ SuccessStays)

\* an item succeeded, the next failed, and the batch went on to its end
C21_Witness ==
  /\ Returned("coda_bulk_update_rows")
  /\ Len(args.updates) = 3
  /\ settled[1].status = "resolved"
  /\ settled[2].status = "rejected"
  /\ Report.results[1].success

\* C22: coda_duplicate_page calls createPage only with content that is a
\* string a successful retrieval returned; when the retrieval resolves with
\* undefined, createPage is not called and the result is error-flagged.
C22_CreateOnlyWithDefinedContent ==
  tool = "coda_duplicate_page" =>
    /\ \A k \in CreatePageCalls :
         /\ settled[1].status = "resolved"
         /\ calls[k].body.pageContent.canvasContent.content = settled[1].data
         /\ calls[k].body.pageContent.canvasContent.content.type = "string"
    /\ (/\ Len(settled) >= 1
        /\ settled[1] = Resolved(undefined)) =>
         /\ CreatePageCalls = {}
         /\ pc = "returned"
         /\ result.isError

\* the line terminators: a bare line feed, or one prefixed by a carriage return
Terminators == {<<"\n">>, <<"\r", "\n">>}

\* lines[k] terms[k] lines[k+1] ... lines[Len(lines)]
RECURSIVE RejoinFrom(_, _, _)
RejoinFrom(lines, terms, k) ==
  IF k >= Len(lines) THEN lines[k]
  ELSE lines[k] \o terms[k] \o RejoinFrom(lines, terms, k + 1)

\* the lines split(s) yields hold no line feed, and there is a choice of one
\* terminator after each line but the last that gives back s, in which a
\* line before a bare line feed does not end in a carriage return
SplitLossless(s) ==
  LET lines == split(s)
  IN  /\ Len(lines) >= 1
      /\ \A k \in 1..Len(lines) : \A j \in 1..Len(lines[k]) : lines[k][j] # "\n"
      /\ \E terms \in [1..(Len(lines) - 1) -> Terminators] :
           /\ RejoinFrom(lines, terms, 1) = s
           /\ \A k \in 1..(Len(lines) - 1) :
                terms[k] = <<"\n">> =>
                  (lines[k] = << >> \/ lines[k][Len(lines[k])] # "\r")

\* the content coda_peek_page retrieved is a string
PeekGot ==
  /\ tool = "coda_peek_page"
  /\ Len(settled) = 1
  /\ settled[1].status = "resolved"
  /\ settled[1].data.type = "string"

\* C23: the line split of coda_peek_page loses and duplicates no character:
\* every '\n' and every '\r\n' pair is one line break, and the lines with
\* their original terminators put back give the content again, a lone '\r'
\* staying inside its line.
C23_SplitLosesNothing ==
  PeekGot => SplitLossless(settled[1].data.chars)

\* a content with a lone carriage return and a carriage-return line break
C23_Witness ==
  /\ PeekGot
  /\ pc = "returned"
  /\ settled[1].data.chars = <<"\r", "a", "\r", "\n">>
  /\ split(settled[1].data.chars) = << <<"\r", "a">>, << >> >>

\* s holds a carriage return directly followed by a line feed
HasCRLF(s) ==
  \E k \in 1..(Len(s) - 1) : s[k] = "\r" /\ s[k + 1] = "\n"

\* C29: the text coda_peek_page returns holds no carriage-return-prefixed
\* line break, and splitting it again by the same rule and rejoining gives
\* the same text with the same lines.
C29_NormalisationIdempotent ==
  (PeekGot /\ pc = "returned" /\ ~result.isError) =>
    LET text == result.text.chars
        lines == slice0(split(settled[1].data.chars), args.numLines)
    IN  /\ ~HasCRLF(text)
        /\ split(text) = lines
        /\ join(split(text)) = text

\* the calls of `api` the resolver has issued
ResolverCalls(api) == {k \in 1..Len(rcalls) : rcalls[k].api = api}

\* C24: the resolver submits, then polls, then fetches: the first call is the
\* export submission and every status poll follows its resolved answer;
\* fetchDownload is called at most once, directly after a poll that saw
\* Complete, with the download reference of that answer; and a status poll
\* that follows an earlier one is issued out of a suspension for the poll
\* interval.
C24_SubmitPollFetch ==
  /\ [](rcalls # << >> =>
          /\ ResolverCalls("submitExport") = {1}
          /\ Len(rcalls) >= 2 =>
               (rsettled[1].status = "resolved"
                /\ rsettled[1].data.exportId # absent))
  /\ [](/\ Cardinality(ResolverCalls("fetchDownload")) <= 1
        /\ \A k \in ResolverCalls("fetchDownload") :
             /\ k >= 3
             /\ PollSaw(k - 1, "Complete")
             /\ rcalls[k].downloadRef = rsettled[k - 1].data.downloadRef
             /\ \A j \in 2..(k - 2) : PollSaw(j, "Pending"))
  /\ [][(/\ Len(rcalls') = Len(rcalls) + 1
         /\ rcalls'[Len(rcalls')].api = "getExportStatus"
         /\ ResolverCalls("getExportStatus") # {}) =>
          (rpc = "sleep" /\ waited' = waited + 1)]_vars

\* a Pending poll, a suspension, a Complete poll, then the fetch
C24_Witness ==
  /\ rpc = "done"
  /\ routcome.status = "resolved"
  /\ Len(rcalls) = 4
  /\ PollSaw(2, "Pending")
  /\ PollSaw(3, "Complete")
  /\ rcalls[4].api = "fetchDownload"

\* the outcomes a batch run alone records for the answers the calls of
\* invocation h got
AloneOutcomes(h) ==
  [k \in 1..Len(h.settled) |->
     IF h.settled[k].status = "resolved"
     THEN [rowId |-> h.args.updates[k].rowIdOrName, success |-> TRUE,
           data |-> h.settled[k].data]
     ELSE [rowId |-> h.args.updates[k].rowIdOrName, success |-> FALSE,
           error |-> h.settled[k].error.message]]

\* invocation h has called the API only for its own arguments, and what it
\* returned is what it returns when run alone and given the same answers
Independent(h) ==
  /\ h.tool = "coda_bulk_update_rows" =>
       /\ Len(h.calls) <= Len(h.args.updates)
       /\ \A k \in 1..Len(h.calls) :
            /\ h.calls[k].api = "updateRow"
            /\ h.calls[k].path = [docId |-> h.args.docId,
                                  tableIdOrName |-> h.args.tableIdOrName,
                                  rowIdOrName |-> h.args.updates[k].rowIdOrName]
       /\ h.pc = "returned" =>
            /\ ~h.result.isError
            /\ Len(h.settled) = Len(h.args.updates)
            /\ h.result.text.json.results = AloneOutcomes(h)
            /\ h.result.text.json.totalUpdates = Len(h.args.updates)
            /\ h.result.text.json.successful =
                 Cardinality({k \in 1..Len(h.settled) :
                                h.settled[k].status = "resolved"})
            /\ h.result.text.json.failed =
                 Cardinality({k \in 1..Len(h.settled) :
                                h.settled[k].status = "rejected"})
  /\ h.tool = "coda_get_page_content" =>
       /\ h.calls = <<[api |-> "getPageContent", docId |-> h.args.docId,
                       pageIdOrName |-> h.args.pageIdOrName]>>
       /\ h.pc = "returned" =>
            IF h.settled[1].status = "resolved" /\ h.settled[1].data # undefined
            THEN ~h.result.isError /\ h.result.text = h.settled[1].data
            ELSE h.result.isError

\* C25: of two invocations running at once, under every interleaving of
\* their suspension points, each calls the API for its own items only and
\* returns the result built from its own items and the answers to its own
\* calls, the one it returns when run alone.
C25_ConcurrentInvocationsIndependent ==
  Independent(Running) /\ Independent(parked)

\* a batch has run to its end while another batch with other items was
\* suspended on its first call, then on its second
C25_Witness ==
  /\ Returned("coda_bulk_update_rows")
  /\ Len(args.updates) = 2
  /\ settled[1].status = "rejected"
  /\ parked.tool = "coda_bulk_update_rows"
  /\ parked.pc = "await"
  /\ Len(parked.settled) = 1
  /\ parked.settled[1].status = "resolved"
  /\ parked.args.updates[1] # args.updates[1]

\* C26: when a handler has returned its result, every API call the
\* invocation started has resolved or rejected: no updateRow call of a batch
\* and no content retrieval of a search is still in flight; while the
\* handler runs, the one call not yet settled is the one it is suspended on.
C26_NoDetachedWork ==
  /\ Len(settled) <= Len(calls)
  /\ pc = "returned" => Len(settled) = Len(calls)
  /\ pc = "await" => Len(calls) = Len(settled) + 1

\* a search has returned after the content retrieval for each of its pages
\* settled, one of them with a failure
C26_Witness ==
  /\ Returned("coda_search_pages")
  /\ Len(calls) = 3
  /\ Len(settled) = 3
  /\ settled[2].status = "rejected"
  /\ settled[3].status = "resolved"

\* the page listing a search got, and the items of the result it returned
Listing == settled[1].data.items
Found == result.text.json.items

\* the search has returned a result built from a page listing
SearchDone ==
  /\ Returned("coda_search_pages")
  /\ settled[1].status = "resolved"
  /\ ~result.isError

\* the name of the page at position k of the listing holds the query,
\* letter case aside
NameMatch(k) ==
  includes(toLowerCase(Listing[k].name), toLowerCase(args.query))

\* item j of the result is marked as a match by content
ByContent(j) == "matchedInContent" \in DOMAIN Found[j]

\* C27: in a search with includeContent = true the failure of the content
\* retrieval for one page is isolated: the retrieval is attempted for every
\* page of the listing, in listing order, whatever happened to the pages
\* before; a page whose retrieval failed is no content match; every page
\* matching by name is in the result; the result is a success.  The tool
\* fails exactly when the page listing itself fails.
C27_ContentFailureIsolated ==
  tool = "coda_search_pages" =>
    /\ (args.includeContent # undefined /\ args.includeContent.b /\ Len(settled) >= 1
        /\ settled[1].status = "resolved") =>
         /\ Len(calls) <= 1 + Len(Listing)
         /\ \A k \in 2..Len(calls) :
              calls[k] = [api |-> "getPageContent", docId |-> args.docId,
                          pageIdOrName |-> Listing[k - 1].id]
         /\ pc = "returned" => Len(calls) = 1 + Len(Listing)
    /\ pc = "returned" =>
         /\ result.isError <=> settled[1].status = "rejected"
         /\ result.isError =>
              result.text = "Failed to search pages : " \o ReasonOf(1)
         /\ ~result.isError =>
              /\ \A k \in 1..Len(Listing) :
                   NameMatch(k) => \E j \in 1..Len(Found) : Found[j] = Listing[k]
              /\ \A k \in 2..Len(settled) :
                   settled[k].status = "rejected" =>
                     ~\E j \in 1..Len(Found) :
                        ByContent(j) /\ Found[j].id = Listing[k - 1].id

\* the retrieval failed for the first page, which matches by name; the
\* second page was still read and is a content match
C27_Witness ==
  /\ SearchDone
  /\ Len(Listing) = 2
  /\ Len(settled) = 3
  /\ settled[2].status = "rejected"
  /\ NameMatch(1)
  /\ Len(Found) = 2
  /\ Found[1] = Listing[1]
  /\ ByContent(2)
  /\ Found[2].id = Listing[2].id

\* position in the listing of the page with this id
PositionOf(id) == CHOOSE k \in 1..Len(Listing) : Listing[k].id = id

\* C28: the result of a search lists no page id twice and totalFound is the
\* length of items; every item is a page of the listing; the pages matching
\* by name come first, all of them, in listing order, and after them the
\* pages matching by content only, in listing order.
C28_SearchResultWellFormed ==
  SearchDone =>
    /\ result.text.json.totalFound = Len(Found)
    /\ \A j, k \in 1..Len(Found) : j # k => Found[j].id # Found[k].id
    /\ \A j \in 1..Len(Found) :
         /\ \E k \in 1..Len(Listing) :
              Listing[k].id = Found[j].id /\ Listing[k].name = Found[j].name
         /\ ByContent(j) <=> ~NameMatch(PositionOf(Found[j].id))
    /\ \A k \in 1..Len(Listing) :
         NameMatch(k) => \E j \in 1..Len(Found) : Found[j].id = Listing[k].id
    /\ \A j, k \in 1..Len(Found) :
         j < k =>
           /\ ~(ByContent(j) /\ ~ByContent(k))
           /\ (ByContent(j) <=> ByContent(k)) =>
                PositionOf(Found[j].id) < PositionOf(Found[k].id)

\* the second page of the listing matches by name and is listed before the
\* first page, which matches by content only
C28_Witness ==
  /\ SearchDone
  /\ Len(Listing) = 2
  /\ Len(Found) = 2
  /\ Found[1].id = Listing[2].id
  /\ ~ByContent(1)
  /\ Found[2].id = Listing[1].id
  /\ ByContent(2)

====
